---- MODULE Spec2Model ----
(***************************************************************************)
(* A model of sushichef.py, the Google Garage Digital sushi chef: the      *)
(* pre-run hook, the traversal construct_channel -> parse_page ->          *)
(* parse_course -> parse_module -> add_lesson_video / add_lesson_practice  *)
(* -> add_exam, and the three question builders add_lesson_practice        *)
(* dispatches to.                                                          *)
(*                                                                         *)
(* A Python str is a sequence of chunks: markup and answer texts are       *)
(* sequences of single characters, so that str.replace is a real substring *)
(* replacement; identifiers are sequences of the pieces str.format joins.  *)
(* A Python dict is a function whose DOMAIN is its key set.  A JSON scalar *)
(* that may be a number or a string is [int |-> n] or [str |-> s].         *)
(***************************************************************************)
EXTENDS Integers, Sequences, FiniteSets, TLC

VARIABLES
    cookies,        \* self.cookies
    prerun,         \* position of the pre_run hook
    pc,             \* position of construct_channel and the traversal
    categories,     \* parse_page's dict: the category keys that have a node
    steps,          \* every add_child, handler call and raise so far, in order
    log,            \* the LOGGER.error records, in order
    todo,           \* the items the running for loops have left
    cur,            \* the number of the course, module and lesson being processed
    practice,       \* the page the running add_lesson_practice read
    lesson,         \* the lesson node it was called on
    outcome         \* how the call ended, and the lesson node it left

vars == <<cookies, prerun, pc, categories, steps, log, todo, cur,
          practice, lesson, outcome>>

-----------------------------------------------------------------------------
(* Bounds of the model *)

MaxOpts == 2        \* options of a practice activity
MaxCorrect == 2     \* entries of correctOptions
MaxSubQ == 2        \* sub-questions of a text-drawer / boolean-selector
MaxFilters == 2     \* <a> elements of the filter nav
MaxCourses == 2     \* courses of the index page
MaxModules == 2     \* module cards of a course page
MaxLessons == 2     \* lessons of a module page
MaxItems == 6       \* courses, modules and lessons of the whole site

-----------------------------------------------------------------------------
(* Python strings *)

NL == "\n"
P_OPEN == <<"<", "p", ">">>
P_CLOSE == <<"<", "/", "p", ">">>

\* s.replace(old, new): the non-overlapping occurrences of old, found left to
\* right, are replaced in one pass; what a replacement produces is not rescanned
RECURSIVE Replace(_, _, _)
Replace(s, old, new) ==
    IF Len(s) < Len(old) THEN s
    ELSE IF SubSeq(s, 1, Len(old)) = old
         THEN new \o Replace(SubSeq(s, Len(old) + 1, Len(s)), old, new)
         ELSE <<Head(s)>> \o Replace(Tail(s), old, new)

\* old in s
Contains(s, old) ==
    \E i \in 1..(Len(s) - Len(old) + 1) : SubSeq(s, i, i + Len(old) - 1) = old

\* text.replace("<p>", "").replace("</p>", "")
StripMarkup(text) == Replace(Replace(text, P_OPEN, <<>>), P_CLOSE, <<>>)

DigitChars == <<"0", "1", "2", "3", "4", "5", "6", "7", "8", "9">>
DigitVal(c) == CHOOSE d \in 0..9 : DigitChars[d + 1] = c

\* str(n) of a non-negative int
RECURSIVE Digits(_)
Digits(n) ==
    IF n < 10 THEN <<DigitChars[n + 1]>>
    ELSE Digits(n \div 10) \o <<DigitChars[(n % 10) + 1]>>

\* int(s) of a string of digits
RECURSIVE ParseDigits(_)
ParseDigits(s) ==
    IF s = <<>> THEN 0
    ELSE 10 * ParseDigits(SubSeq(s, 1, Len(s) - 1)) + DigitVal(s[Len(s)])

\* int(x) of a JSON scalar
PyInt(x) == IF "int" \in DOMAIN x THEN x.int ELSE ParseDigits(x.str)

\* "{}".format(x) of a JSON scalar
PyFormat(x) == IF "int" \in DOMAIN x THEN Digits(x.int) ELSE x.str

\* d.get(key) is truthy: the key is there and its string is not empty
Truthy(d, key) == key \in DOMAIN d /\ d[key] # <<>>

\* lst[i] of a Python list, i >= 0
At(lst, i) == lst[i + 1]

-----------------------------------------------------------------------------
(* The question builders *)

MultipleSelectQuestion(id, question, correct_answers, all_answers) ==
    [kind |-> "MultipleSelectQuestion", id |-> id, question |-> question,
     correct_answers |-> correct_answers, all_answers |-> all_answers]

SingleSelectQuestion(id, question, correct_answer, all_answers) ==
    [kind |-> "SingleSelectQuestion", id |-> id, question |-> question,
     correct_answer |-> correct_answer, all_answers |-> all_answers]

\* variant: the correct answers are taken from the options, not from all_answers
Mut_multiple_raw_correct(question, description, practice_id) ==
    LET options == question["options"]
        all_answers == [i \in 1..Len(options) |-> StripMarkup(options[i]["text"])]
        correct_answers ==
            [k \in 1..Len(question["correctOptions"]) |->
                At(options, PyInt(question["correctOptions"][k]))["text"]]
    IN  MultipleSelectQuestion(practice_id \o <<"-question">>, description,
                               correct_answers, all_answers)

\* variant: all_answers is built back to front
Mut_multiple_reversed(question, description, practice_id) ==
    LET options == question["options"]
        n == Len(options)
        all_answers == [i \in 1..n |-> StripMarkup(options[n + 1 - i]["text"])]
        correct_answers ==
            [k \in 1..Len(question["correctOptions"]) |->
                At(all_answers, PyInt(question["correctOptions"][k]))]
    IN  MultipleSelectQuestion(practice_id \o <<"-question">>, description,
                               correct_answers, all_answers)

add_a_multiple_select_question(question, description, practice_id) ==
    LET options == question["options"]
        all_answers == [i \in 1..Len(options) |-> StripMarkup(options[i]["text"])]
        correct_answers ==
            [k \in 1..Len(question["correctOptions"]) |->
                At(all_answers, PyInt(question["correctOptions"][k]))]
    IN  MultipleSelectQuestion(practice_id \o <<"-question">>, description,
                               correct_answers, all_answers)

\* the for loop of add_a_single_select_question over question["options"]
RECURSIVE single_all_answers(_, _)
single_all_answers(options, question) ==
    IF options = <<>> THEN <<>>
    ELSE LET choice == Head(options)
             answer == IF Truthy(choice, "text")
                       THEN choice["text"]
                       ELSE choice["value"] \o <<" ">> \o question["unit"]
         IN  <<answer>> \o single_all_answers(Tail(options), question)

\* variant: correctOption is ignored, the first answer is the correct one
Mut_single_first(question, description, practice_id) ==
    LET all_answers == single_all_answers(question["options"], question)
    IN  SingleSelectQuestion(practice_id \o <<"-question">>, description,
                             At(all_answers, 0), all_answers)

add_a_single_select_question(question, description, practice_id) ==
    LET all_answers == single_all_answers(question["options"], question)
    IN  SingleSelectQuestion(practice_id \o <<"-question">>, description,
                             At(all_answers, PyInt(question["correctOption"])),
                             all_answers)

\* choice.get("answer") or choice.get("text")
AnswerOrText(choice) ==
    IF Truthy(choice, "answer") THEN choice["answer"] ELSE choice["text"]

\* variant: the sub-question id is left out of the question id
Mut_multiple_single_no_id(questions, description, practice_id) ==
    [q \in 1..Len(questions) |->
        LET question == questions[q]
            options == question["options"]
            all_answers == [i \in 1..Len(options) |-> StripMarkup(AnswerOrText(options[i]))]
        IN  SingleSelectQuestion(practice_id \o <<"-question">>,
                                 description \o <<NL>> \o question["text"],
                                 At(all_answers, PyInt(question["correctOption"])),
                                 all_answers)]

add_multiple_single_select_questions(questions, description, practice_id) ==
    [q \in 1..Len(questions) |->
        LET question == questions[q]
            source_id == practice_id \o <<"-question-">> \o PyFormat(question["id"])
            options == question["options"]
            all_answers == [i \in 1..Len(options) |-> StripMarkup(AnswerOrText(options[i]))]
            question_text == description \o <<NL>> \o question["text"]
        IN  SingleSelectQuestion(source_id, question_text,
                                 At(all_answers, PyInt(question["correctOption"])),
                                 all_answers)]

-----------------------------------------------------------------------------
(* add_lesson_practice *)

CHANNEL_LANGUAGE == "es"

MultipleSelectTypes == {"select-right", "switches-text", "strike-through", "tag-cloud"}
SingleSelectTypes == {"swipe-selector", "twitter-draganddrop", "image-slider"}
MultipleSingleTypes == {"text-drawer", "boolean-selector"}
RecognisedTypes == MultipleSelectTypes \cup SingleSelectTypes \cup MultipleSingleTypes

\* A practice page is a dict: "intro" holds the texts of the <p> elements of
\* div.activity-intro__question (no key: the div is not there), "lessonData"
\* what json.loads makes of the window.lessonData literal (no key: the
\* pattern does not match; no "activities": the literal does not decode).
PracticePageFails(page) ==
    \/ "intro" \notin DOMAIN page
    \/ "lessonData" \notin DOMAIN page
    \/ "activities" \notin DOMAIN page["lessonData"]

\* question_description: every paragraph followed by a newline
RECURSIVE QuestionDescription(_)
QuestionDescription(question_paras) ==
    IF question_paras = <<>> THEN <<>>
    ELSE Head(question_paras) \o <<NL>> \o QuestionDescription(Tail(question_paras))

ExerciseNode(source_id, title, questions) ==
    [kind |-> "ExerciseNode", source_id |-> source_id, title |-> title,
     questions |-> questions]

add_child(node, child) == [node EXCEPT !.children = Append(@, child)]

\* the end of add_lesson_practice: the exercise node is built and added
CreateExercise(lesson_node, title, questions_add_to_exercise) ==
    [status |-> "returned",
     lesson |-> add_child(lesson_node,
                          ExerciseNode(lesson_node.title \o <<" Practice">>, title,
                                       questions_add_to_exercise)),
     questions |-> questions_add_to_exercise,
     log |-> <<>>]

\* variant: the else branch logs and does not return
Mut_unrecognised_falls_through(lesson_node, url, title, practice_type) ==
    [status |-> "returned",
     lesson |-> add_child(lesson_node,
                          ExerciseNode(lesson_node.title \o <<" Practice">>, title, <<>>)),
     questions |-> <<>>,
     log |-> <<<<"Type ", practice_type, " hasn't been analyzed: ">> \o url>>]

\* the else branch: LOGGER.error and return
UnrecognisedType(lesson_node, url, title, practice_type) ==
    [status |-> "returned",
     lesson |-> lesson_node,
     questions |-> <<>>,
     log |-> <<<<"Type ", practice_type, " hasn't been analyzed: ">> \o url>>]

add_lesson_practice(lesson_node, url, title, page) ==
    IF PracticePageFails(page)
    THEN [status |-> "raised", lesson |-> lesson_node, questions |-> <<>>, log |-> <<>>]
    ELSE
      LET question_description == QuestionDescription(page["intro"])
          lesson_data == page["lessonData"]
          practice_data == lesson_data["activities"][1]["activity"]
          practice_type == lesson_data["activities"][1]["type"]
          practice_id == lesson_node.source_id \o <<"-practice">>
      IN  IF practice_type \in MultipleSelectTypes
          THEN CreateExercise(lesson_node, title,
                   <<add_a_multiple_select_question(practice_data, question_description,
                                                    practice_id)>>)
          ELSE IF practice_type \in SingleSelectTypes
          THEN CreateExercise(lesson_node, title,
                   <<add_a_single_select_question(practice_data, question_description,
                                                  practice_id)>>)
          ELSE IF practice_type \in MultipleSingleTypes
          THEN CreateExercise(lesson_node, title,
                   add_multiple_single_select_questions(practice_data["options"],
                                                        question_description, practice_id))
          ELSE UnrecognisedType(lesson_node, url, title, practice_type)

-----------------------------------------------------------------------------
(* The practice pages the model reads *)

SeqsUpTo(S, n) == UNION {[1..k -> S] : k \in 0..n}
NonEmptySeqs(S, n) == UNION {[1..k -> S] : k \in 1..n}

TextPool == { <<"A">>,
              P_OPEN \o <<"B">> \o P_CLOSE,
              P_OPEN \o <<"C">> \o P_CLOSE \o P_OPEN \o <<"D">> \o P_CLOSE }

\* an index of a list of n items, as JSON gives it: a number or a string of digits
IndexTokens(n) ==
    {[int |-> k] : k \in 0..(n - 1)} \cup {[str |-> Digits(k)] : k \in 0..(n - 1)}

UnrecognisedTypes == {"unknown-widget", "select-left"}

IntroParas == { <<>>, << <<"Q">> >> }

\* correctOptions: up to MaxCorrect indices of a list of n options, in
\* increasing order, each one a number or a string of digits
CorrectOptionLists(n) ==
    UNION { {[k \in 1..Len(ix) |->
                 IF as_int[k] THEN [int |-> ix[k]] ELSE [str |-> Digits(ix[k])]] :
                as_int \in [1..Len(ix) -> BOOLEAN]} :
            ix \in {s \in SeqsUpTo(0..(n - 1), MaxCorrect) :
                       \A i, j \in 1..Len(s) : i < j => s[i] < s[j]} }

MultipleSelectActivities ==
    UNION { {[options |-> o, correctOptions |-> c] : c \in CorrectOptionLists(Len(o))} :
            o \in NonEmptySeqs({[text |-> t] : t \in TextPool}, MaxOpts) }

SingleChoices ==
    { [text |-> <<"A">>],
      [text |-> P_OPEN \o <<"B">> \o P_CLOSE],
      [value |-> <<"1", "0">>],
      [text |-> <<>>, value |-> <<"7">>] }

\* the activities without a unit have a text in every option
SingleSelectActivities ==
    UNION { {[options |-> o, correctOption |-> c, unit |-> <<"k", "g">>] :
                c \in IndexTokens(Len(o))} :
            o \in NonEmptySeqs(SingleChoices, MaxOpts) }
    \cup
    UNION { {[options |-> o, correctOption |-> c] : c \in IndexTokens(Len(o))} :
            o \in NonEmptySeqs({[text |-> <<"A">>], [text |-> P_OPEN \o <<"B">> \o P_CLOSE]},
                               MaxOpts) }

SubQuestionPool ==
    { [id |-> [int |-> 1], text |-> <<"T">>,
       options |-> << [answer |-> P_OPEN \o <<"A">> \o P_CLOSE], [text |-> <<"B">>] >>,
       correctOption |-> [int |-> 1]],
      [id |-> [str |-> <<"2">>], text |-> <<"U">>,
       options |-> << [answer |-> <<>>, text |-> P_OPEN \o <<"C">>],
                      [answer |-> <<"A">>, text |-> <<"B">>] >>,
       correctOption |-> [str |-> <<"0">>]],
      [id |-> [int |-> 12], text |-> <<"T">>,
       options |-> << [text |-> P_OPEN \o <<"C">> \o P_CLOSE],
                      [answer |-> <<"Y">>], [answer |-> <<"N">>] >>,
       correctOption |-> [str |-> <<"2">>]],
      [id |-> [str |-> <<"b">>], text |-> <<>>,
       options |-> << [answer |-> <<"Y">>, text |-> <<>>] >>,
       correctOption |-> [int |-> 0]] }

\* two sub-questions of the pool, in a fixed order
SiteSubQuestions ==
    LET first == CHOOSE q \in SubQuestionPool : q["id"] = [str |-> <<"2">>]
        second == CHOOSE q \in SubQuestionPool : q["id"] = [int |-> 1]
    IN  <<first, second>>

MultipleSingleActivities ==
    {[options |-> qs] : qs \in SeqsUpTo(SubQuestionPool, MaxSubQ)}

PracticePage(paras, type, activity) ==
    [intro |-> paras,
     lessonData |-> [activities |-> <<[type |-> type, activity |-> activity]>>]]

PracticePages ==
    {PracticePage(d, t, a) :
        d \in IntroParas, t \in MultipleSelectTypes, a \in MultipleSelectActivities}
    \cup {PracticePage(d, t, a) :
        d \in IntroParas, t \in SingleSelectTypes, a \in SingleSelectActivities}
    \cup {PracticePage(d, t, a) :
        d \in IntroParas, t \in MultipleSingleTypes, a \in MultipleSingleActivities}
    \cup {PracticePage(d, t, [options |-> <<[text |-> <<"A">>]>>, correctOptions |-> <<>>]) :
        d \in IntroParas, t \in UnrecognisedTypes}

NoCall == [status |-> "none"]
NoLoops == [filters |-> 0, courses |-> 0, modules |-> 0, lessons |-> 0]
Nowhere == [filter |-> 0, course |-> 0, module |-> 0, lesson |-> 0]

VideoNode(source_id, title) ==
    [kind |-> "VideoNode", source_id |-> source_id, title |-> title]

TopicNode(source_id, title) ==
    [kind |-> "TopicNode", source_id |-> source_id, title |-> title, children |-> <<>>]

SampleLesson ==
    add_child(TopicNode(<<CHANNEL_LANGUAGE, "-", "lesson">>, <<"Lesson">>),
              VideoNode(<<CHANNEL_LANGUAGE, "-", "lesson", "-video">>, <<"Video">>))

SampleUrl == <<"lesson", "/", "practice">>
SampleTitle == <<"Practice">>

-----------------------------------------------------------------------------
(* add_lesson_practice applied to one page *)

InitPractice ==
    /\ cookies = {}
    /\ prerun = "not_called"
    /\ pc = "idle"
    /\ categories = {}
    /\ steps = <<>>
    /\ log = <<>>
    /\ todo = NoLoops
    /\ cur = Nowhere
    /\ practice \in PracticePages
    /\ lesson = SampleLesson
    /\ outcome = [status |-> "pending"]

PracticeCall ==
    /\ outcome.status = "pending"
    /\ outcome' = add_lesson_practice(lesson, SampleUrl, SampleTitle, practice)
    /\ log' = log \o outcome'.log
    /\ UNCHANGED <<cookies, prerun, pc, categories, steps, todo, cur,
                   practice, lesson>>

NextPractice == PracticeCall

SpecPractice == InitPractice /\ [][NextPractice]_vars

-----------------------------------------------------------------------------
(* pre_run *)

\* the names pre_run can resolve: its parameters, and what the module binds
\* (imports, run constants, the class); "token" is bound only in the
\* commented-out lines 59-68
PreRunNames ==
    {"self", "args", "kwargs",
     "re", "json", "BeautifulSoup", "downloader", "SushiChef", "YouTubeVideoFile",
     "LOGGER", "raise_for_invalid_channel", "TopicNode", "VideoNode", "ExerciseNode",
     "CC_BY_NC_SALicense", "SingleSelectQuestion", "MultipleSelectQuestion",
     "exercises", "CHANNEL_NAME", "CHANNEL_SOURCE_ID", "CHANNEL_DOMAIN",
     "CHANNEL_LANGUAGE", "CHANNEL_DESCRIPTION", "CHANNEL_THUMBNAIL", "BASE_URL",
     "TOKEN_URL", "SIGN_IN_URL", "GoogleGarageDigitalChef"}

\* self.cookies = {"gtoken": token}: the right-hand side is evaluated first, and
\* a name that resolves nowhere raises NameError before anything is assigned
PreRun ==
    /\ prerun = "not_called"
    /\ pc = "idle"
    /\ IF "token" \in PreRunNames
       THEN /\ cookies' = {<<"gtoken", "token">>}
            /\ prerun' = "returned"
       ELSE /\ cookies' = cookies
            /\ prerun' = "raised"
    /\ UNCHANGED <<pc, categories, steps, log, todo, cur, practice, lesson, outcome>>

-----------------------------------------------------------------------------
(* The traversal *)

BASE_URL == "https://learndigital.withgoogle.com/garagedigital/"

\* the data-filterby of the k-th <a> of the filter nav; the first one lists
\* all the courses
FilterKey(k) == IF k = 1 THEN <<"all">> ELSE <<"category">> \o Digits(k)
FilterText(k) == IF k = 1 THEN <<"All">> ELSE <<"Category ">> \o Digits(k)

\* what the site serves for the i-th course, its j-th module, its k-th lesson
CourseSlug(i) == <<"course">> \o Digits(i)
ModuleHref(i, j) == <<"course", "/">> \o CourseSlug(i) \o <<"/", "module", "/">> \o Digits(j)
LessonUrl(i, j, k) ==
    <<BASE_URL>> \o ModuleHref(i, j) \o <<"#", "/", "lesson", "/">> \o Digits(k) \o <<"/">>

\* s.split(sep)[-1]: what follows the last sep in s, all of s if there is none
AfterLast(s, sep) ==
    LET at == {i \in 1..(Len(s) - Len(sep) + 1) : SubSeq(s, i, i + Len(sep) - 1) = sep}
    IN  IF at = {} THEN s
        ELSE LET last == CHOOSE i \in at : \A j \in at : j <= i
             IN  SubSeq(s, last + Len(sep), Len(s))

CourseId(i) == <<CHANNEL_LANGUAGE, "-">> \o CourseSlug(i)
ModuleId(i, j) == <<CHANNEL_LANGUAGE, "-">> \o Replace(ModuleHref(i, j), <<"/">>, <<"-">>)
LessonId(i, j, k) ==
    <<CHANNEL_LANGUAGE, "-">>
        \o Replace(Replace(AfterLast(LessonUrl(i, j, k), <<"course", "/">>),
                           <<"#", "/">>, <<>>),
                   <<"/">>, <<"-">>)
VideoId(lesson_id) == lesson_id \o <<"-video">>
LessonTitle(k) == <<"Lesson ">> \o Digits(k)
ChannelId == <<"sushi-chef-google-digital-literacy">>

AddChild(parent, node, kind) ==
    [op |-> "add_child", parent |-> parent, node |-> node, kind |-> kind]
Call(handler, node, parent) ==
    [op |-> handler, parent |-> parent, node |-> node, kind |-> "call"]
Raised(frame) ==
    [op |-> "raise", parent |-> <<>>, node |-> <<frame>>, kind |-> "raise"]

\* the practice pages of the site: one activity of each kind, one of a type the
\* chef does not know, and the pages add_lesson_practice cannot read
SitePracticePages ==
    { PracticePage(<< <<"Q">> >>, "tag-cloud",
                   [options |-> << [text |-> P_OPEN \o <<"B">> \o P_CLOSE], [text |-> <<"A">>] >>,
                    correctOptions |-> << [str |-> <<"1">>] >>]),
      PracticePage(<< <<"Q">> >>, "image-slider",
                   [options |-> << [value |-> <<"5">>], [value |-> <<"1", "0">>] >>,
                    correctOption |-> [int |-> 0], unit |-> <<"k", "g">>]),
      PracticePage(<<>>, "boolean-selector",
                   [options |-> SiteSubQuestions]),
      PracticePage(<< <<"Q">> >>, "unknown-widget",
                   [options |-> << [text |-> <<"A">>] >>, correctOptions |-> <<>>]),
      [lessonData |-> [activities |-> <<[type |-> "tag-cloud", activity |-> <<>>]>>]],
      [intro |-> <<>>],
      [intro |-> <<>>, lessonData |-> [malformed |-> TRUE]] }

\* the categories a course of the index page may name: one the nav lists
\* second, and one it lists only when it is full
CourseItems ==
    {[malformed |-> TRUE]}
        \cup {[category |-> FilterKey(k)] : k \in {2, MaxFilters + 1}}

\* the courses, modules and lessons met so far and still to come in the
\* running loops; the site has no more than MaxItems of them
Committed ==
    Cardinality({e \in DOMAIN steps : steps[e].kind \in {"course", "module", "lesson"}})
        + todo.courses + todo.modules + todo.lessons

Min(a, b) == IF a < b THEN a ELSE b
Room(most) == Min(most, MaxItems - Committed)

Init ==
    /\ cookies = {}
    /\ prerun = "not_called"
    /\ pc = "idle"
    /\ categories = {}
    /\ steps = <<>>
    /\ log = <<>>
    /\ todo = NoLoops
    /\ cur = Nowhere
    /\ practice = NoCall
    /\ lesson = NoCall
    /\ outcome = NoCall

\* variant: the course loop of parse_page catches what parse_course raises
Mut_caught_in_course_loop(frame) ==
    IF frame \in {"parse_course", "parse_module", "add_lesson_video", "add_lesson_practice"}
    THEN "courses"
    ELSE "raised"

\* no handler has a try: an exception raised in any frame leaves them all
Propagate(frame) == "raised"

Raise(frame, entered) ==
    /\ pc' = Propagate(frame)
    /\ steps' = steps \o entered \o <<Raised(frame)>>
    /\ UNCHANGED <<categories, log, todo, cur>>

NoPractice == practice' = NoCall /\ lesson' = NoCall /\ outcome' = NoCall

\* lines 84-93: the channel node, and the index page opened.  The ricecooker
\* runner calls pre_run first and goes no further when it raises; the method
\* can also be called on a chef whose pre_run was never run.
ConstructChannel ==
    /\ pc = "idle"
    /\ prerun # "raised"
    /\ \E opened \in BOOLEAN :
          IF opened
          THEN /\ pc' = "parse_page"
               /\ UNCHANGED <<categories, steps, log, todo, cur>>
          ELSE Raise("construct_channel", <<>>)
    /\ NoPractice
    /\ UNCHANGED <<cookies, prerun>>

\* line 104: the <a> elements of nav.course-list__filters
ParsePage ==
    /\ pc = "parse_page"
    /\ \E found \in BOOLEAN, n \in 0..MaxFilters :
          IF found
          THEN /\ pc' = "filters"
               /\ todo' = [todo EXCEPT !.filters = n]
               /\ UNCHANGED <<categories, steps, log, cur>>
          ELSE Raise("parse_page", <<>>)
    /\ NoPractice
    /\ UNCHANGED <<cookies, prerun>>

\* lines 105-113: one turn of the loop over the filters
NextFilter ==
    /\ pc = "filters"
    /\ todo.filters > 0
    /\ \E has_filterby \in BOOLEAN :
          LET k == cur.filter + 1
              category_id == FilterKey(k)
          IN  IF ~has_filterby
              THEN Raise("parse_page", <<>>)
              ELSE /\ pc' = "filters"
                   /\ todo' = [todo EXCEPT !.filters = @ - 1]
                   /\ cur' = [cur EXCEPT !.filter = k]
                   /\ IF category_id = <<"all">>
                      THEN UNCHANGED <<categories, steps>>
                      ELSE /\ categories' = categories \cup {category_id}
                           /\ steps' = Append(steps, AddChild(ChannelId, FilterText(k), "category"))
                   /\ UNCHANGED log
    /\ NoPractice
    /\ UNCHANGED <<cookies, prerun>>

\* lines 116-118: the courses literal of script#__data__, split into items
ParseCourses ==
    /\ pc = "filters"
    /\ todo.filters = 0
    /\ \E found \in BOOLEAN, n \in 1..Room(MaxCourses) :
          IF found
          THEN /\ pc' = "courses"
               /\ todo' = [todo EXCEPT !.courses = n]
               /\ UNCHANGED <<categories, steps, log, cur>>
          ELSE Raise("parse_page", <<>>)
    /\ NoPractice
    /\ UNCHANGED <<cookies, prerun>>

\* lines 119-129: one turn of the loop over the courses, up to the call of
\* parse_course
NextCourse ==
    /\ pc = "courses"
    /\ todo.courses > 0
    /\ \E item \in CourseItems :
          LET i == cur.course + 1
          IN  IF "category" \notin DOMAIN item \/ item["category"] \notin categories
              THEN Raise("parse_page", <<>>)
              ELSE /\ pc' = "parse_course"
                   /\ todo' = [todo EXCEPT !.courses = @ - 1]
                   /\ cur' = [cur EXCEPT !.course = i, !.module = 0, !.lesson = 0]
                   /\ steps' = Append(steps, AddChild(FilterText(ParseDigits(Tail(item["category"]))),
                                                      CourseId(i), "course"))
                   /\ UNCHANGED <<categories, log>>
    /\ NoPractice
    /\ UNCHANGED <<cookies, prerun>>

\* lines 132-139: the course page opened, its module cards found; with no
\* card parse_course returns to the loop of parse_page
ParseCourse ==
    /\ pc = "parse_course"
    /\ \E opened \in BOOLEAN, n \in 0..Room(MaxModules) :
          LET entered == <<Call("parse_course", CourseId(cur.course), <<>>)>>
          IN  IF opened
              THEN /\ pc' = IF n > 0 THEN "modules" ELSE "courses"
                   /\ todo' = [todo EXCEPT !.modules = n]
                   /\ steps' = steps \o entered
                   /\ UNCHANGED <<categories, log, cur>>
              ELSE Raise("parse_course", entered)
    /\ NoPractice
    /\ UNCHANGED <<cookies, prerun>>

\* lines 140-148: one turn of the loop over the module cards, up to the call
\* of parse_module
NextModule ==
    /\ pc = "modules"
    /\ todo.modules > 0
    /\ \E has_image \in BOOLEAN :
          LET j == cur.module + 1
          IN  IF ~has_image
              THEN Raise("parse_course", <<>>)
              ELSE /\ pc' = "parse_module"
                   /\ todo' = [todo EXCEPT !.modules = @ - 1]
                   /\ cur' = [cur EXCEPT !.module = j, !.lesson = 0]
                   /\ steps' = Append(steps, AddChild(CourseId(cur.course),
                                                      ModuleId(cur.course, j), "module"))
                   /\ UNCHANGED <<categories, log>>
    /\ NoPractice
    /\ UNCHANGED <<cookies, prerun>>

\* lines 151-161: the module page opened, its lessons found
ParseModule ==
    /\ pc = "parse_module"
    /\ \E opened \in BOOLEAN, n \in 0..Room(MaxLessons) :
          LET entered == <<Call("parse_module", ModuleId(cur.course, cur.module), <<>>)>>
          IN  IF opened
              THEN /\ pc' = "lessons"
                   /\ todo' = [todo EXCEPT !.lessons = n]
                   /\ steps' = steps \o entered
                   /\ UNCHANGED <<categories, log, cur>>
              ELSE Raise("parse_module", entered)
    /\ NoPractice
    /\ UNCHANGED <<cookies, prerun>>

\* variant: the practice is read first
Mut_practice_first == "practice"

\* lines 174-175: what parse_module calls once the lesson node is attached
after_lesson_node == "video"

\* lines 162-173: one turn of the loop over the lessons, up to the call of
\* add_lesson_video
NextLesson ==
    /\ pc = "lessons"
    /\ todo.lessons > 0
    /\ \E well_formed \in BOOLEAN :
          LET k == cur.lesson + 1
          IN  IF ~well_formed
              THEN Raise("parse_module", <<>>)
              ELSE /\ pc' = after_lesson_node
                   /\ todo' = [todo EXCEPT !.lessons = @ - 1]
                   /\ cur' = [cur EXCEPT !.lesson = k]
                   /\ steps' = Append(steps, AddChild(ModuleId(cur.course, cur.module),
                                                      LessonId(cur.course, cur.module, k),
                                                      "lesson"))
                   /\ UNCHANGED <<categories, log>>
    /\ NoPractice
    /\ UNCHANGED <<cookies, prerun>>

CurLessonId == LessonId(cur.course, cur.module, cur.lesson)
CurModuleId == ModuleId(cur.course, cur.module)

\* lines 185-206
AddLessonVideo ==
    /\ pc = "video"
    /\ \E has_video \in BOOLEAN :
          LET entered == <<Call("add_lesson_video", CurLessonId, CurModuleId)>>
          IN  IF has_video
              THEN /\ pc' = "practice"
                   /\ steps' = steps \o entered
                                \o <<AddChild(CurLessonId, VideoId(CurLessonId), "video")>>
                   /\ UNCHANGED <<categories, log, todo, cur>>
              ELSE Raise("add_lesson_video", entered)
    /\ NoPractice
    /\ UNCHANGED <<cookies, prerun>>

\* the lesson node as the traversal has built it
LessonNode(lesson_id, title) ==
    LET kids == SelectSeq(steps, LAMBDA e : e.op = "add_child" /\ e.parent = lesson_id)
    IN  [TopicNode(lesson_id, title) EXCEPT
            !.children = [c \in 1..Len(kids) |-> VideoNode(kids[c].node, <<"Video">>)]]

\* lines 208-258
AddLessonPractice ==
    /\ pc = "practice"
    /\ \E page \in SitePracticePages :
          LET node == LessonNode(CurLessonId, LessonTitle(cur.lesson))
              url == LessonUrl(cur.course, cur.module, cur.lesson) \o <<"practice">>
              entered == <<Call("add_lesson_practice", CurLessonId, CurModuleId)>>
              result == add_lesson_practice(node, url, <<"Practice">>, page)
              added == SubSeq(result.lesson.children, Len(node.children) + 1,
                              Len(result.lesson.children))
          IN  /\ practice' = page
              /\ lesson' = node
              /\ outcome' = result
              /\ IF result.status = "raised"
                 THEN Raise("add_lesson_practice", entered)
                 ELSE /\ pc' = "lessons"
                      /\ steps' = steps \o entered
                                   \o [c \in 1..Len(added) |->
                                         AddChild(CurLessonId, added[c].source_id, "exercise")]
                      /\ log' = log \o result.log
                      /\ UNCHANGED <<categories, todo, cur>>
    /\ UNCHANGED <<cookies, prerun>>

\* lines 177-181: the lessons are done and add_exam only logs; parse_module
\* returns to the loop of parse_course, which returns when no card is left
AddExam ==
    /\ pc = "lessons"
    /\ todo.lessons = 0
    /\ pc' = IF todo.modules > 0 THEN "modules" ELSE "courses"
    /\ steps' = Append(steps, Call("add_exam", CurModuleId, <<>>))
    /\ NoPractice
    /\ UNCHANGED <<cookies, prerun, categories, log, todo, cur>>

\* lines 95-98: raise_for_invalid_channel, then the channel is returned
Finish ==
    /\ pc = "courses"
    /\ todo.courses = 0
    /\ \E valid \in BOOLEAN :
          IF valid
          THEN /\ pc' = "returned"
               /\ UNCHANGED <<categories, steps, log, todo, cur>>
          ELSE Raise("construct_channel", <<>>)
    /\ NoPractice
    /\ UNCHANGED <<cookies, prerun>>

Next ==
    \/ PreRun
    \/ ConstructChannel
    \/ ParsePage
    \/ NextFilter
    \/ ParseCourses
    \/ NextCourse
    \/ ParseCourse
    \/ NextModule
    \/ ParseModule
    \/ NextLesson
    \/ AddLessonVideo
    \/ AddLessonPractice
    \/ AddExam
    \/ Finish

Spec == Init /\ [][Next]_vars

-----------------------------------------------------------------------------
(* What a finished call of add_lesson_practice shows *)

Returned == outcome.status = "returned"
PracticeType == practice["lessonData"]["activities"][1]["type"]
PracticeData == practice["lessonData"]["activities"][1]["activity"]
Description == QuestionDescription(practice["intro"])
PracticeId == lesson.source_id \o <<"-practice">>

\* the children the call added to the lesson node
Added ==
    SubSeq(outcome.lesson.children, Len(lesson.children) + 1,
           Len(outcome.lesson.children))

\* the questions of the exercise node the call added
Produced == IF Len(Added) = 1 THEN Added[1].questions ELSE <<>>

\* the index a JSON scalar denotes: the k whose number or decimal string it is
IndexOf(x) == CHOOSE k \in 0..9 : x = [int |-> k] \/ x = [str |-> Digits(k)]

HasKey(d, key) == key \in DOMAIN d /\ d[key] # <<>>

Range(f) == {f[i] : i \in DOMAIN f}

OneExercise == Len(Added) = 1 /\ Added[1].kind = "ExerciseNode"

\* the multi-answer question of C1, with the answer texts given by text(_)
MultipleSelectShape(text(_)) ==
    LET options == PracticeData["options"]
        correct == PracticeData["correctOptions"]
    IN  /\ OneExercise
        /\ Len(Produced) = 1
        /\ Produced[1].kind = "MultipleSelectQuestion"
        /\ Produced[1].id = PracticeId \o <<"-question">>
        /\ Len(Produced[1].all_answers) = Len(options)
        /\ \A i \in 1..Len(options) :
              Produced[1].all_answers[i] = text(options[i]["text"])
        /\ Range(Produced[1].correct_answers)
              = {Produced[1].all_answers[IndexOf(correct[k]) + 1] : k \in 1..Len(correct)}

Verbatim(t) == t

\* C1 as stated: for select-right, switches-text, strike-through and tag-cloud
\* the call produces one multi-answer question "<practice_id>-question" whose
\* allAnswers[i] is the text of option i and whose correctAnswers are the
\* allAnswers at the indices of correctOptions
C1_AsStated ==
    (Returned /\ PracticeType \in MultipleSelectTypes) => MultipleSelectShape(Verbatim)

\* C1, amended: as C1, with allAnswers[i] the text of option i after every
\* "<p>" and then every "</p>" has been removed from it
C1_MultipleSelect ==
    (Returned /\ PracticeType \in MultipleSelectTypes) => MultipleSelectShape(StripMarkup)

C1_Witness ==
    /\ Returned
    /\ PracticeType \in MultipleSelectTypes
    /\ Len(PracticeData["options"]) = MaxOpts
    /\ Len(PracticeData["correctOptions"]) = 2
    /\ "int" \in DOMAIN PracticeData["correctOptions"][1]
    /\ PracticeData["correctOptions"][2] = [str |-> <<"1">>]
    /\ PracticeData["options"][1]["text"] = P_OPEN \o <<"B">> \o P_CLOSE
    /\ Produced[1].all_answers[1] = <<"B">>
    /\ Produced[1].all_answers[2] = <<"A">>
    /\ Produced[1].correct_answers[2] = <<"A">>

\* C2: for swipe-selector, twitter-draganddrop and image-slider the call
\* produces one single-answer question "<practice_id>-question"; allAnswers[i]
\* is option i's text when it has one (a non-empty text) and "<value> <unit>"
\* otherwise; the correct answer is allAnswers[correctOption]
C2_SingleSelect ==
    (Returned /\ PracticeType \in SingleSelectTypes) =>
        LET options == PracticeData["options"]
        IN  /\ OneExercise
            /\ Len(Produced) = 1
            /\ Produced[1].kind = "SingleSelectQuestion"
            /\ Produced[1].id = PracticeId \o <<"-question">>
            /\ Len(Produced[1].all_answers) = Len(options)
            /\ \A i \in 1..Len(options) :
                  Produced[1].all_answers[i] =
                      IF HasKey(options[i], "text")
                      THEN options[i]["text"]
                      ELSE options[i]["value"] \o <<" ">> \o PracticeData["unit"]
            /\ Produced[1].correct_answer
                  = Produced[1].all_answers[IndexOf(PracticeData["correctOption"]) + 1]

C2_Witness ==
    /\ Returned
    /\ PracticeType = "swipe-selector"
    /\ Len(PracticeData["options"]) = 2
    /\ PracticeData["options"][1] = [text |-> <<"A">>]
    /\ PracticeData["options"][2] = [value |-> <<"1", "0">>]
    /\ PracticeData["correctOption"] = [str |-> <<"1">>]
    /\ Produced[1].correct_answer = <<"1", "0", " ", "k", "g">>

\* the N single-answer questions of C3, with the answer texts given by text(_)
MultipleSingleShape(text(_)) ==
    LET questions == PracticeData["options"]
    IN  /\ OneExercise
        /\ Len(Produced) = Len(questions)
        /\ \A q \in 1..Len(questions) :
              LET options == questions[q]["options"]
                  id == questions[q]["id"]
              IN  /\ Produced[q].kind = "SingleSelectQuestion"
                  /\ Produced[q].id =
                        PracticeId \o <<"-question-">>
                            \o (IF "int" \in DOMAIN id THEN Digits(id.int) ELSE id.str)
                  /\ Produced[q].question = Description \o <<NL>> \o questions[q]["text"]
                  /\ Len(Produced[q].all_answers) = Len(options)
                  /\ \A i \in 1..Len(options) :
                        Produced[q].all_answers[i] =
                            text(IF HasKey(options[i], "answer")
                                 THEN options[i]["answer"]
                                 ELSE options[i]["text"])
                  /\ Produced[q].correct_answer =
                        Produced[q].all_answers[IndexOf(questions[q]["correctOption"]) + 1]

\* C3 as stated: for text-drawer and boolean-selector the call produces one
\* single-answer question per sub-question, in order, with id
\* "<practice_id>-question-<q.id>", prompt description + newline + q's text,
\* allAnswers[i] the answer field of option i if present and else its text
\* field, and correct answer allAnswers[q.correctOption]
C3_AsStated ==
    (Returned /\ PracticeType \in MultipleSingleTypes) => MultipleSingleShape(Verbatim)

\* C3, amended: as C3, with allAnswers[i] the non-empty answer field of option
\* i, and else its text field, after every "<p>" and then every "</p>" has
\* been removed from it
C3_MultipleSingle ==
    (Returned /\ PracticeType \in MultipleSingleTypes) => MultipleSingleShape(StripMarkup)

C3_Witness ==
    /\ Returned
    /\ PracticeType = "text-drawer"
    /\ Len(PracticeData["options"]) = 2
    /\ PracticeData["options"][1]["id"] = [str |-> <<"2">>]
    /\ PracticeData["options"][2]["id"] = [int |-> 12]
    /\ practice["intro"] # <<>>
    /\ Len(Produced) = 2
    /\ Produced[1].id = PracticeId \o <<"-question-", "2">>
    /\ Produced[2].id = PracticeId \o <<"-question-", "1", "2">>
    /\ Produced[1].question = <<"Q", NL, NL, "U">>
    /\ Produced[1].all_answers = << <<"C">>, <<"A">> >>
    /\ Produced[2].correct_answer = <<"N">>

\* the correct answers of a question record
CorrectOf(q) ==
    IF q.kind = "MultipleSelectQuestion" THEN Range(q.correct_answers)
    ELSE {q.correct_answer}

\* C5: for every recognised type, each correct answer of each question
\* produced is an element of that question's allAnswers
C5_CorrectAmongAll ==
    (Returned /\ PracticeType \in RecognisedTypes) =>
        \A q \in 1..Len(Produced) :
            CorrectOf(Produced[q]) \subseteq Range(Produced[q].all_answers)

C5_Witness ==
    /\ Returned
    /\ PracticeType \in MultipleSelectTypes
    /\ Len(Produced) = 1
    /\ Cardinality(CorrectOf(Produced[1])) = 2
    /\ \E i \in 1..Len(PracticeData["options"]) :
          Contains(PracticeData["options"][i]["text"], P_OPEN)

\* C6: for every recognised type no element of any allAnswers produced, and
\* no correct answer, contains "<p>" or "</p>", and an option text
\* "<p>X</p>" appears as "X"
C6_MarkupStripped ==
    (Returned /\ PracticeType \in RecognisedTypes) =>
        \A q \in 1..Len(Produced) :
            \A a \in Range(Produced[q].all_answers) \cup CorrectOf(Produced[q]) :
                ~Contains(a, P_OPEN) /\ ~Contains(a, P_CLOSE)

-----------------------------------------------------------------------------
(* The traversal's claims *)

Last(seq) == seq[Len(seq)]

\* C4: when add_lesson_practice meets a type that is none of the nine, it
\* produces no question, leaves the lesson's children as they were, logs the
\* type and the URL, and returns: parse_module is back in its loop over the
\* lessons
C4_UnrecognisedSkipped ==
    (Returned /\ PracticeType \notin RecognisedTypes) =>
        /\ outcome.questions = <<>>
        /\ outcome.lesson.children = lesson.children
        /\ Last(steps) = Call("add_lesson_practice", lesson.source_id, CurModuleId)
        /\ log # <<>>
        /\ PracticeType \in Range(Last(log))
        /\ Contains(Last(log),
                    LessonUrl(cur.course, cur.module, cur.lesson) \o <<"practice">>)
        /\ pc = "lessons"
        /\ (todo.lessons > 0 => ENABLED NextLesson)
        /\ (todo.lessons = 0 => ENABLED AddExam)

C4_Witness ==
    /\ Returned
    /\ PracticeType = "unknown-widget"
    /\ pc = "lessons"
    /\ todo.lessons > 0
    /\ Len(lesson.children) = 1
    /\ Len(log) = 1

\* C8: the categories are attached before any course is touched; a course is
\* attached before parse_course runs on it, a module before parse_module runs
\* on it and before its lessons are attached; a lesson's video is added before
\* its practice is read; add_exam runs on a module after the video and the
\* practice of each of its lessons, and none of its lessons comes after it
C8_Order ==
    /\ \A i, j \in DOMAIN steps :
          (i < j /\ steps[j].kind = "category") => steps[i].kind = "category"
    /\ \A j \in DOMAIN steps :
          /\ steps[j].op = "parse_course" =>
                \E i \in 1..(j - 1) : steps[i].kind = "course" /\ steps[i].node = steps[j].node
          /\ steps[j].kind = "module" =>
                \E i \in 1..(j - 1) :
                    steps[i].op = "parse_course" /\ steps[i].node = steps[j].parent
          /\ steps[j].op = "parse_module" =>
                \E i \in 1..(j - 1) : steps[i].kind = "module" /\ steps[i].node = steps[j].node
          /\ steps[j].kind = "lesson" =>
                \E i \in 1..(j - 1) :
                    steps[i].op = "parse_module" /\ steps[i].node = steps[j].parent
          /\ steps[j].op = "add_lesson_video" =>
                \E i \in 1..(j - 1) : steps[i].kind = "lesson" /\ steps[i].node = steps[j].node
          /\ steps[j].op = "add_lesson_practice" =>
                \E i \in 1..(j - 1) : steps[i].kind = "video" /\ steps[i].parent = steps[j].node
          /\ steps[j].op = "add_exam" =>
                \A i \in DOMAIN steps :
                    (steps[i].kind = "lesson" /\ steps[i].parent = steps[j].node) =>
                        /\ i < j
                        /\ \E v, p \in (i + 1)..(j - 1) :
                              /\ v < p
                              /\ steps[v].kind = "video" /\ steps[v].parent = steps[i].node
                              /\ steps[p].op = "add_lesson_practice"
                              /\ steps[p].node = steps[i].node
          /\ steps[j].op = "add_exam" =>
                \A i \in (j + 1)..Len(steps) : steps[i].parent # steps[j].node

C8_Witness ==
    /\ pc = "returned"
    /\ Cardinality({i \in DOMAIN steps : steps[i].kind = "category"}) = 1
    /\ Cardinality({i \in DOMAIN steps : steps[i].kind = "course"}) = 2
    /\ Cardinality({i \in DOMAIN steps : steps[i].kind = "lesson"}) = 2
    /\ Cardinality({i \in DOMAIN steps : steps[i].op = "add_exam"}) = 2
    /\ Cardinality({i \in DOMAIN steps : steps[i].kind = "exercise"}) = 2

Failures == {i \in DOMAIN steps : steps[i].op = "raise"}

\* C9: once a page has failed the run is over: the exception is the last
\* thing that happened (nothing is called or attached after it, nothing is
\* tried again) and construct_channel has not returned and never will
C9_FailureStops ==
    Failures # {} =>
        /\ Failures = {Len(steps)}
        /\ pc = "raised"
        /\ ~ ENABLED Next

C9_Witness ==
    /\ Failures # {}
    /\ Last(steps) = Raised("add_lesson_practice")
    /\ outcome.status = "raised"
    /\ "lessonData" \in DOMAIN practice
    /\ "activities" \notin DOMAIN practice["lessonData"]
    /\ Cardinality({i \in DOMAIN steps : steps[i].kind = "lesson"}) = 2

\* C10: once pre_run has been called it has returned, and self.cookies holds
\* the token under "gtoken" and is no longer the empty map
C10_PreRunAssignsCookies ==
    prerun # "not_called" =>
        /\ prerun = "returned"
        /\ cookies # {}
        /\ \E c \in cookies : c[1] = "gtoken"

====
